---- MODULE Spec2Model ----
(***************************************************************************)
(* EV charger ETL: main.py reads raw_data/fast_chargers.csv and            *)
(* build_tables derives the station dimension, the operator dimension and  *)
(* the charger fact table (src/transform_data.py) and writes each as a CSV *)
(* file (src/build_table_files.py).                                        *)
(*                                                                         *)
(* A DataFrame is a sequence of rows; a row is a function from column      *)
(* names to cells.  A string cell is a sequence of one-character strings,  *)
(* so that str.strip_chars is computed, not assumed.                       *)
(***************************************************************************)
EXTENDS Integers, Sequences, FiniteSets, TLC

\* ------------------------------------------------------------------ bounds
MaxRows == 2
MaxObjId == 2
MaxRuns == 2

\* ------------------------------------------------------------------ cells
\* polars null of a string column: no string, being no sequence of characters
NULL == <<"null">>
\* polars null of an integer column (surrogate ids start at 1)
NullInt == 0

Unknown == <<"U", "n", "k", "n", "o", "w", "n">>
NoneStr == <<"N", "o", "n", "e">>
Acme == <<"A", "c", "m", "e">>

Whitespace == {" ", "\t", "\n"}

RECURSIVE StripStart(_)
StripStart(s) ==
    IF s # <<>> /\ Head(s) \in Whitespace THEN StripStart(Tail(s)) ELSE s

RECURSIVE StripEnd(_)
StripEnd(s) ==
    IF s # <<>> /\ s[Len(s)] \in Whitespace
    THEN StripEnd(SubSeq(s, 1, Len(s) - 1))
    ELSE s

\* pl.col(...).str.strip_chars(): null stays null
StripChars(s) == IF s = NULL THEN NULL ELSE StripEnd(StripStart(s))

\* ------------------------------------------------------------------ inputs
OperatorNames == {NULL, Acme, NoneStr, Unknown, Unknown \o <<" ">>}

StationA == <<"S", "t", " ", "A">>
StationB == <<"S", "t", " ", "B">>

\* the raw file is denormalised: a station's attributes repeat on its rows,
\* and the chargers of one site have the same plugs
Sites ==
    { [name |-> StationA, address |-> <<"1">>, lat |-> 51, long |-> 4, num |-> 2,
       chademo |-> 1, ccs |-> 0, tesla |-> 0, total |-> 1],
      [name |-> StationB, address |-> <<"2">>, lat |-> 52, long |-> 5, num |-> 3,
       chademo |-> 0, ccs |-> 2, tesla |-> 1, total |-> 3] }

AllColumns ==
    { "ObjId", "Operator", "Station name", "Station address", "Latitude",
      "Longitude", "Number of station", "Number of plugs", "CHAdeMO",
      "CCS/SAE", "Tesla(Fast)" }

RawRow(id, op, site) ==
    ("ObjId" :> id) @@ ("Operator" :> op) @@ ("Station name" :> site.name)
    @@ ("Station address" :> site.address)
    @@ ("Latitude" :> site.lat)
    @@ ("Longitude" :> site.long)
    @@ ("Number of station" :> site.num)
    @@ ("Number of plugs" :> site.total) @@ ("CHAdeMO" :> site.chademo)
    @@ ("CCS/SAE" :> site.ccs) @@ ("Tesla(Fast)" :> site.tesla)

RawRows ==
    { RawRow(id, op, site) :
        id \in 1..MaxObjId, op \in OperatorNames, site \in Sites }

Batches == UNION { [1..n -> RawRows] : n \in 0..MaxRows }

\* ------------------------------------------------------------------ frames
Select(df, cols) == [i \in DOMAIN df |-> [c \in cols |-> df[i][c]]]

RenameRow(r, m) ==
    LET new(c) == IF c \in DOMAIN m THEN m[c] ELSE c
    IN  [d \in {new(c) : c \in DOMAIN r} |->
            r[CHOOSE c \in DOMAIN r : new(c) = d]]

Rename(df, m) == [i \in DOMAIN df |-> RenameRow(df[i], m)]

Concat(a, b) == a \o b

Filter(df, col, v) == SelectSeq(df, LAMBDA r : r[col] = v)

\* DataFrame.fill_null(value) on a frame of string columns
FillNull(df, v) ==
    [i \in DOMAIN df |->
        [c \in DOMAIN df[i] |-> IF df[i][c] = NULL THEN v ELSE df[i][c]]]

\* slip: pl.arange(0, height), ids counted from 0
ArangeZeroBased(low, high) == [i \in 1..(high - low) |-> low + i - 2]

\* pl.arange(low, high): the integers low, ..., high - 1
Arange(low, high) == [i \in 1..(high - low) |-> low + i - 1]

\* with_columns(series.alias(col)) for a column the frame does not have yet
WithColumn(df, col, series) == [i \in DOMAIN df |-> df[i] @@ (col :> series[i])]

KeyValues(df, subset) == { df[i][subset] : i \in DOMAIN df }

RowsWith(df, subset, v) == { df[i] : i \in {j \in DOMAIN df : df[j][subset] = v} }

RECURSIVE KeepAny(_, _, _)
\* keep="any": for each key one of its rows, without any guarantee which
KeepAny(df, subset, keys) ==
    IF keys = {} THEN { <<>> }
    ELSE LET v == CHOOSE k \in keys : TRUE
         IN  { (v :> r) @@ f :
                 r \in RowsWith(df, subset, v),
                 f \in KeepAny(df, subset, keys \ {v}) }

\* DataFrame.unique(subset=...) with the defaults keep="any" and
\* maintain_order=False: the set of frames the call may return
Unique(df, subset) ==
    LET keys == KeyValues(df, subset)
        n == Cardinality(keys)
        orders == { o \in [1..n -> keys] :
                      \A i, j \in 1..n : i # j => o[i] # o[j] }
    IN  { [i \in 1..n |-> k[o[i]]] :
            o \in orders, k \in KeepAny(df, subset, keys) }

RECURSIVE Insert(_, _, _)
Insert(r, sorted, col) ==
    IF sorted = <<>> THEN <<r>>
    ELSE IF r[col] < Head(sorted)[col] THEN <<r>> \o sorted
    ELSE <<Head(sorted)>> \o Insert(r, Tail(sorted), col)

\* slip: the .sort("charger_id") left out
KeepOrder(df, col) == df

RECURSIVE Sort(_, _)
\* DataFrame.sort(col, descending=False)
Sort(df, col) ==
    IF df = <<>> THEN <<>>
    ELSE Insert(df[Len(df)], Sort(SubSeq(df, 1, Len(df) - 1), col), col)

\* the rows of `right` a left row joins to; a null key matches nothing
Matches(l, right, left_on, right_on) ==
    IF l[left_on] = NULL THEN <<>>
    ELSE SelectSeq(right, LAMBDA r : r[right_on] = l[left_on])

\* slip: how="inner", a left row without a match is dropped
JoinRowInner(l, right, left_on, right_on, right_cols) ==
    LET m == Matches(l, right, left_on, right_on)
    IN  [i \in DOMAIN m |-> l @@ [c \in right_cols |-> m[i][c]]]

JoinRow(l, right, left_on, right_on, right_cols) ==
    LET m == Matches(l, right, left_on, right_on)
    IN  IF m = <<>>
        THEN << l @@ [c \in right_cols |-> NullInt] >>
        ELSE [i \in DOMAIN m |-> l @@ [c \in right_cols |-> m[i][c]]]

RECURSIVE Join(_, _, _, _, _)
\* left.join(right, how="left", left_on=..., right_on=...); right_cols are
\* the non-key columns of right (integer columns in both joins of the code)
Join(left, right, left_on, right_on, right_cols) ==
    IF left = <<>> THEN <<>>
    ELSE JoinRow(Head(left), right, left_on, right_on, right_cols)
         \o Join(Tail(left), right, left_on, right_on, right_cols)

\* ------------------------------------------------------------------ transform_data.py
RECURSIVE FirstSeen(_, _, _)
\* the rows of df whose value of col is in none of the rows before them
FirstSeen(df, col, seen) ==
    IF df = <<>> THEN <<>>
    ELSE IF Head(df)[col] \in seen THEN FirstSeen(Tail(df), col, seen)
    ELSE <<Head(df)>> \o FirstSeen(Tail(df), col, seen \cup {Head(df)[col]})

\* slip: the stations deduplicated by name before the ids are assigned
dim_station_distinct(data) ==
    LET distinct == FirstSeen(data, "Station name", {})
        renamed_columns ==
            Rename(Select(distinct, {"Station name", "Station address", "Latitude",
                                     "Longitude", "Number of station"}),
                   ("Station name" :> "station_name")
                   @@ ("Station address" :> "address")
                   @@ ("Latitude" :> "lat")
                   @@ ("Longitude" :> "long")
                   @@ ("Number of station" :> "num_of_charging_stations"))
    IN  Select(WithColumn(renamed_columns, "station_id",
                          Arange(1, Len(renamed_columns) + 1)),
               {"station_id", "station_name", "num_of_charging_stations",
                "lat", "long"})

dim_station(data) ==
    LET columns == Select(data, {"Station name", "Station address", "Latitude",
                                 "Longitude", "Number of station"})
        renamed_columns ==
            Rename(columns, ("Station name" :> "station_name")
                            @@ ("Station address" :> "address")
                            @@ ("Latitude" :> "lat")
                            @@ ("Longitude" :> "long")
                            @@ ("Number of station" :> "num_of_charging_stations"))
    IN  Select(WithColumn(renamed_columns, "station_id",
                          Arange(1, Len(renamed_columns) + 1)),
               {"station_id", "station_name", "num_of_charging_stations",
                "lat", "long"})

\* dim_operator from the frame that select("Operator").unique(...) returned
dim_operator_of(selected_columns) ==
    LET renamed == Rename(selected_columns, "Operator" :> "operator_name")
        unknown == << ("operator_name" :> Unknown) >>
        renamed_columns == Concat(renamed, unknown)
        filled == FillNull(renamed_columns, NoneStr)
        with_id == WithColumn(filled, "operator_id",
                              Arange(1, Len(renamed_columns) + 1))
    IN  [i \in DOMAIN with_id |->
            [with_id[i] EXCEPT !["operator_name"] = StripChars(@)]]

\* the frames dim_operator(data) may return
dim_operator(data) ==
    { dim_operator_of(u) : u \in Unique(Select(data, {"Operator"}), "Operator") }

\* dim_operator_table.filter(pl.col("operator_name") == "Unknown")["operator_id"][0]
SentinelLookup(dim_operator_table) ==
    Filter(dim_operator_table, "operator_name", Unknown)[1]["operator_id"]

FactColumns ==
    {"charger_id", "station_id", "operator_id", "chademo_plug_count",
     "ccs_sae_plug_count", "tesla_plug_count", "total_plug_count"}

\* the fact frame before .unique(subset="charger_id").sort("charger_id")
fact_resolved(data, dim_operator_table, dim_station_table) ==
    LET temp_dataframe ==
            Join(Join(data, dim_operator_table, "Operator", "operator_name",
                      {"operator_id"}),
                 dim_station_table, "Station name", "station_name",
                 {"station_id", "num_of_charging_stations", "lat", "long"})
        temp_dataframe_renamed_columns ==
            Rename(temp_dataframe, ("ObjId" :> "charger_id")
                                   @@ ("Number of plugs" :> "total_plug_count")
                                   @@ ("CHAdeMO" :> "chademo_plug_count")
                                   @@ ("CCS/SAE" :> "ccs_sae_plug_count")
                                   @@ ("Tesla(Fast)" :> "tesla_plug_count"))
        selected == Select(temp_dataframe_renamed_columns, FactColumns)
        sentinel == SentinelLookup(dim_operator_table)
    IN  [i \in DOMAIN selected |->
            [selected[i] EXCEPT !["operator_id"] =
                IF @ = NullInt THEN sentinel ELSE @]]

\* the frames fact_ev_charger(data, dim_operator_table, dim_station_table) may return
fact_ev_charger(data, dim_operator_table, dim_station_table) ==
    { Sort(u, "charger_id") :
        u \in Unique(fact_resolved(data, dim_operator_table, dim_station_table),
                     "charger_id") }

\* ------------------------------------------------------------------ state
VARIABLES
    ev_charger_data,        \* the raw batch (content of raw_data/fast_chargers.csv)
    file_exists,            \* whether raw_data/fast_chargers.csv exists
    csv_columns,                \* the header of the raw file
    operator_dtype,         \* dtype read_csv infers for the Operator column
    dim_station_data,
    dim_operator_data,
    fact_ev_charger_data,
    pc,                     \* position in main / build_tables
    exc,                    \* the exception in flight, "none" if none
    printed,                \* what main printed in this run
    files,                  \* data_file_output: file name -> content
    written,                \* the files this run wrote
    run,                    \* number of the run of main
    prev_files              \* data_file_output as the previous run left it

vars == << ev_charger_data, file_exists, csv_columns, operator_dtype,
           dim_station_data, dim_operator_data, fact_ev_charger_data,
           pc, exc, printed, files, written, run, prev_files >>

input == << ev_charger_data, file_exists, csv_columns, operator_dtype >>
tables == << dim_station_data, dim_operator_data, fact_ev_charger_data >>
process == << exc, printed, files, written, run, prev_files >>

OutputFiles == {"dim_station.csv", "dim_operator.csv", "fact_ev_charger.csv"}

InitCommon ==
    /\ ev_charger_data \in Batches
    /\ dim_station_data = <<>>
    /\ dim_operator_data = <<>>
    /\ fact_ev_charger_data = <<>>
    /\ exc = "none"
    /\ printed = <<>>
    /\ files = <<>>
    /\ written = {}
    /\ run = 1
    /\ prev_files = <<>>

\* ------------------------------------------------------------------ the builders on a well-formed batch
Init ==
    /\ InitCommon
    /\ file_exists = TRUE
    /\ csv_columns = AllColumns
    /\ operator_dtype = "String"
    /\ pc = "raw"

CallDimStation ==
    /\ pc = "raw"
    /\ dim_station_data' = dim_station(ev_charger_data)
    /\ pc' = "station"
    /\ UNCHANGED << input, dim_operator_data, fact_ev_charger_data, process >>

CallDimOperator ==
    /\ pc = "station"
    /\ dim_operator_data' \in dim_operator(ev_charger_data)
    /\ pc' = "operator"
    /\ UNCHANGED << input, dim_station_data, fact_ev_charger_data, process >>

CallFactEvCharger ==
    /\ pc = "operator"
    /\ fact_ev_charger_data' \in
          fact_ev_charger(ev_charger_data, dim_operator_data, dim_station_data)
    /\ pc' = "fact"
    /\ UNCHANGED << input, dim_station_data, dim_operator_data, process >>

Next == CallDimStation \/ CallDimOperator \/ CallFactEvCharger

Spec == Init /\ [][Next]_vars

\* ------------------------------------------------------------------ main.py, build_table_files.py
StationColumns ==
    {"Station name", "Station address", "Latitude", "Longitude", "Number of station"}

\* the columns fact_ev_charger joins on and renames
ChargerColumns ==
    {"Operator", "Station name", "ObjId", "Number of plugs", "CHAdeMO",
     "CCS/SAE", "Tesla(Fast)"}

\* the except clauses of main
Caught == {"FileNotFoundError", "SchemaError"}

\* the raw file as main may find it: absent, complete, lacking one column,
\* or with an Operator column that read_csv infers as integers
InputConfigs ==
    { [exists |-> FALSE, header |-> AllColumns, dtype |-> "String"],
      [exists |-> TRUE, header |-> AllColumns, dtype |-> "String"],
      [exists |-> TRUE, header |-> AllColumns, dtype |-> "Int64"] }
    \cup { [exists |-> TRUE, header |-> AllColumns \ {c}, dtype |-> "String"] :
             c \in AllColumns }

InitMain ==
    /\ InitCommon
    /\ \E cfg \in InputConfigs :
          /\ file_exists = cfg.exists
          /\ csv_columns = cfg.header
          /\ operator_dtype = cfg.dtype
    /\ pc = "read_csv"

Raise(e) ==
    /\ exc' = e
    /\ pc' = "raised"

\* ev_charger_data = pl.read_csv("raw_data/fast_chargers.csv")
ReadCsv ==
    /\ pc = "read_csv"
    /\ IF file_exists
       THEN pc' = "dim_station" /\ UNCHANGED exc
       ELSE Raise("FileNotFoundError")
    /\ UNCHANGED << input, tables, printed, files, written, run, prev_files >>

\* dim_station_data = td.dim_station(data)
DimStation ==
    /\ pc = "dim_station"
    /\ IF StationColumns \subseteq csv_columns
       THEN /\ dim_station_data' = dim_station(ev_charger_data)
            /\ pc' = "dim_operator"
            /\ UNCHANGED exc
       ELSE /\ Raise("ColumnNotFoundError")
            /\ UNCHANGED dim_station_data
    /\ UNCHANGED << input, dim_operator_data, fact_ev_charger_data,
                    printed, files, written, run, prev_files >>

\* dim_operator_data = td.dim_operator(data)
DimOperator ==
    /\ pc = "dim_operator"
    /\ IF "Operator" \notin csv_columns
       THEN Raise("ColumnNotFoundError") /\ UNCHANGED dim_operator_data
       ELSE IF operator_dtype # "String"
       THEN Raise("SchemaError") /\ UNCHANGED dim_operator_data
       ELSE /\ dim_operator_data' \in dim_operator(ev_charger_data)
            /\ pc' = "build_dim_station"
            /\ UNCHANGED exc
    /\ UNCHANGED << input, dim_station_data, fact_ev_charger_data,
                    printed, files, written, run, prev_files >>

\* data.write_csv(name)
WriteCsv(name, data) ==
    /\ files' = (name :> data) @@ files
    /\ written' = written \cup {name}

BuildDimStation ==
    /\ pc = "build_dim_station"
    /\ WriteCsv("dim_station.csv", dim_station_data)
    /\ pc' = "build_dim_operator"
    /\ UNCHANGED << input, tables, exc, printed, run, prev_files >>

BuildDimOperator ==
    /\ pc = "build_dim_operator"
    /\ WriteCsv("dim_operator.csv", dim_operator_data)
    /\ pc' = "build_fact_ev_charger"
    /\ UNCHANGED << input, tables, exc, printed, run, prev_files >>

BuildFactEvCharger ==
    /\ pc = "build_fact_ev_charger"
    /\ IF ChargerColumns \subseteq csv_columns
       THEN /\ fact_ev_charger_data' \in
                  fact_ev_charger(ev_charger_data, dim_operator_data, dim_station_data)
            /\ WriteCsv("fact_ev_charger.csv", fact_ev_charger_data')
            /\ pc' = "returned"
            /\ UNCHANGED exc
       ELSE /\ Raise("ColumnNotFoundError")
            /\ UNCHANGED << fact_ev_charger_data, files, written >>
    /\ UNCHANGED << input, dim_station_data, dim_operator_data,
                    printed, run, prev_files >>

\* except FileNotFoundError as e: print(...)
ExceptFileNotFoundError ==
    /\ pc = "raised"
    /\ exc = "FileNotFoundError"
    /\ printed' = Append(printed, exc)
    /\ pc' = "returned"
    /\ UNCHANGED << input, tables, exc, files, written, run, prev_files >>

\* except pl.exceptions.SchemaError as e: print(...)
ExceptSchemaError ==
    /\ pc = "raised"
    /\ exc = "SchemaError"
    /\ printed' = Append(printed, exc)
    /\ pc' = "returned"
    /\ UNCHANGED << input, tables, exc, files, written, run, prev_files >>

\* no except clause matches: the exception leaves main
Propagate ==
    /\ pc = "raised"
    /\ exc \notin Caught
    /\ pc' = "unhandled"
    /\ UNCHANGED << input, tables, exc, printed, files, written, run, prev_files >>

\* the program is started again on the same raw file
Rerun ==
    /\ pc \in {"returned", "unhandled"}
    /\ run < MaxRuns
    /\ run' = run + 1
    /\ prev_files' = files
    /\ written' = {}
    /\ exc' = "none"
    /\ printed' = <<>>
    /\ dim_station_data' = <<>>
    /\ dim_operator_data' = <<>>
    /\ fact_ev_charger_data' = <<>>
    /\ pc' = "read_csv"
    /\ UNCHANGED << input, files >>

NextMain ==
    \/ ReadCsv
    \/ DimStation
    \/ DimOperator
    \/ BuildDimStation
    \/ BuildDimOperator
    \/ BuildFactEvCharger
    \/ ExceptFileNotFoundError
    \/ ExceptSchemaError
    \/ Propagate
    \/ Rerun

SpecMain == InitMain /\ [][NextMain]_vars

\* ------------------------------------------------------------------ properties
\* positions of Spec at which a table has been returned
StationBuilt == pc \in {"station", "operator", "fact"}
OperatorBuilt == pc \in {"operator", "fact"}
FactBuilt == pc = "fact"

Column(df, col) == { df[i][col] : i \in DOMAIN df }

\* the ids of the operator dimension rows a raw operator name is equal to
MatchingOperatorIds(op) ==
    { dim_operator_data[k]["operator_id"] :
        k \in { n \in DOMAIN dim_operator_data :
                  dim_operator_data[n]["operator_name"] = op } }

\* the row dim_operator appends is the last one
SentinelRow == dim_operator_data[Len(dim_operator_data)]

SamePlugs(f, r) ==
    /\ f["chademo_plug_count"] = r["CHAdeMO"]
    /\ f["ccs_sae_plug_count"] = r["CCS/SAE"]
    /\ f["tesla_plug_count"] = r["Tesla(Fast)"]
    /\ f["total_plug_count"] = r["Number of plugs"]

\* C1: every fact row has a non-null operator_id, which is the id of an
\* operator dimension row named as the raw row's operator when there is one,
\* and the id of the sentinel "Unknown" row (the appended, last row) otherwise.
C1_FactFKResolution ==
    FactBuilt =>
        \A i \in DOMAIN fact_ev_charger_data :
            LET f == fact_ev_charger_data[i]
            IN  /\ f["operator_id"] # NullInt
                /\ \E j \in DOMAIN ev_charger_data :
                      LET r == ev_charger_data[j]
                          m == MatchingOperatorIds(r["Operator"])
                      IN  /\ r["ObjId"] = f["charger_id"]
                          /\ SamePlugs(f, r)
                          /\ IF m # {}
                             THEN f["operator_id"] \in m
                             ELSE f["operator_id"] = SentinelRow["operator_id"]

\* C2: when no raw operator is named "Unknown", the operator dimension has
\* exactly one row named "Unknown", it is the last row, and its id is the
\* maximum id, the number of distinct raw operator values plus 1.
C2_SentinelPresence ==
    (OperatorBuilt /\ Unknown \notin Column(ev_charger_data, "Operator")) =>
        /\ Cardinality({ k \in DOMAIN dim_operator_data :
                           dim_operator_data[k]["operator_name"] = Unknown }) = 1
        /\ SentinelRow["operator_name"] = Unknown
        /\ \A k \in DOMAIN dim_operator_data :
              dim_operator_data[k]["operator_id"] <= SentinelRow["operator_id"]
        /\ SentinelRow["operator_id"] =
              Cardinality(Column(ev_charger_data, "Operator")) + 1

DenseKeys(df, col) ==
    /\ Column(df, col) = 1..Len(df)
    /\ \A i, j \in DOMAIN df : i # j => df[i][col] # df[j][col]

\* C3: the station_id values of a station dimension of N rows, and the
\* operator_id values of an operator dimension of N rows, are exactly 1..N,
\* none repeated.
C3_KeyDensity ==
    /\ StationBuilt => DenseKeys(dim_station_data, "station_id")
    /\ OperatorBuilt => DenseKeys(dim_operator_data, "operator_id")

C3_Witness ==
    /\ pc = "operator"
    /\ Len(dim_station_data) = 2
    /\ Len(dim_operator_data) = 3

\* C4: the fact table has no two rows with the same charger_id and is sorted
\* in ascending charger_id order.
C4_FactUniqueSorted ==
    FactBuilt =>
        \A i, j \in DOMAIN fact_ev_charger_data :
            i < j => fact_ev_charger_data[i]["charger_id"]
                       < fact_ev_charger_data[j]["charger_id"]

\* raw rows in descending ObjId order, the first matching several operator rows
C4_Witness ==
    /\ FactBuilt
    /\ Len(ev_charger_data) = 2
    /\ ev_charger_data[1]["ObjId"] > ev_charger_data[2]["ObjId"]
    /\ ev_charger_data[1]["Operator"] = Unknown
    /\ ev_charger_data[1]["Station name"] = ev_charger_data[2]["Station name"]
    /\ Len(fact_ev_charger_data) = 2

\* C8: no two rows of the operator dimension have the same operator_name.
C8_OperatorNameUnique ==
    OperatorBuilt =>
        \A i, j \in DOMAIN dim_operator_data :
            i # j => dim_operator_data[i]["operator_name"]
                       # dim_operator_data[j]["operator_name"]

C10_NoChargerLostOrInvented ==
    FactBuilt =>
        /\ Column(fact_ev_charger_data, "charger_id") = Column(ev_charger_data, "ObjId")
        /\ \A i \in DOMAIN fact_ev_charger_data :
              \E j \in DOMAIN ev_charger_data :
                  /\ ev_charger_data[j]["ObjId"] = fact_ev_charger_data[i]["charger_id"]
                  /\ SamePlugs(fact_ev_charger_data[i], ev_charger_data[j])

\* one raw row matching no operator row, one matching several
C10_Witness ==
    /\ FactBuilt
    /\ Len(ev_charger_data) = 2
    /\ ev_charger_data[1]["Operator"] = NULL
    /\ ev_charger_data[2]["Operator"] = Unknown
    /\ ev_charger_data[1]["ObjId"] # ev_charger_data[2]["ObjId"]
    /\ Len(fact_ev_charger_data) = 2

\* C5: a second run on the same raw file leaves the three output files as
\* the first run left them.
C5_RerunIdempotent ==
    (run = 2 /\ pc = "returned" /\ written = OutputFiles
        /\ DOMAIN prev_files = OutputFiles)
    => files = prev_files

\* C6: a run that has ended wrote all three output files or none.
C6_AllOrNothing ==
    pc \in {"returned", "unhandled"} => written \in {{}, OutputFiles}

\* C7: a run that failed on a missing input file or on the input schema
\* ended in an except clause of main, which printed a message, and main
\* returned.
C7_FailureSurface ==
    (pc \in {"returned", "unhandled"}
        /\ exc \in {"FileNotFoundError", "ColumnNotFoundError", "SchemaError"})
    => (pc = "returned" /\ Len(printed) = 1)

====
